---- MODULE Spec2Model ----
(***************************************************************************)
(* Model of the provider-verification proxy of pact-go                     *)
(* (provider/verifier.go): the orchestrator verifyProviderRaw, the port    *)
(* waiter, and the middleware pipeline (before/after hooks, state-handler  *)
(* bridge) that serves every exchange of the verification engine.          *)
(***************************************************************************)
EXTENDS Integers, Sequences, FiniteSets, TLC

VARIABLES
    given,      \* the VerifyRequest as the caller passed it (passed by value)
    v,          \* the Verifier: ClientTimeout (ms) and Hostname
    request,    \* the VerifyRequest the orchestrator works on
    pc,         \* where VerifyProvider / verifyProviderRaw stands
    ret,        \* the error verifyProviderRaw returned ("none": not returned)
    dummy,      \* the addresses the dummy provider servers were started on
    opts,       \* the proxy.Options the reverse proxy was started with
    m,          \* the middleware list handed to the proxy (outermost first)
    port,       \* the port proxy.HTTPReverseProxy returned
    proxyErr,   \* whether proxy.HTTPReverseProxy returned an error
    listening,  \* whether a dial to the proxy port succeeds
    now,        \* ms elapsed since WaitForPort was called
    dial,       \* the dials of WaitForPort: how many, when (ms), with what end
    portErr,    \* what WaitForPort returned ("none": not returned)
    portErrText,\* the text of the error WaitForPort returned, <<>> without one
    engine,     \* the requests handed to the verification engine's run
    tFailed,    \* whether the surrounding test was marked as failed
    result,     \* the error VerifyProvider returned ("none": not returned)
    steps,      \* the steps of verifyProviderRaw taken so far
    phase,      \* proxy side: "idle" | "done" (an exchange has been served)
    r,          \* the HTTP request of the current exchange
    w,          \* its http.ResponseWriter
    log,        \* the calls made while serving it, in order
    calls,      \* the state handler invocations made while serving it
    conc        \* the /__setup exchanges in service at one time, one per goroutine

\* the orchestrator's and the proxy's part of the state
ovars == <<given, v, request, pc, ret, dummy, opts, m, port, proxyErr, listening, now, dial,
           portErr, portErrText, engine, tFailed, result, steps>>
hvars == <<phase, r, w, log, calls>>
vars == <<ovars, hvars, conc>>

(***************************************************************************)
(* Bounds                                                                  *)
(***************************************************************************)
\* longest JSON object (number of key/value members) in a request body
MaxPairs == 2
\* number of /__setup requests the proxy serves at the same time
MaxGoroutines == 2

(***************************************************************************)
(* Program constants                                                       *)
(***************************************************************************)
providerStatesSetupPath == "/__setup"
messagesPath == "/__messages"
StatusOK == 200
StatusInternalServerError == 500
\* ClientTimeout default (10 * time.Second) and the polling interval of
\* WaitForPort, in ms
DefaultClientTimeout == 10000
PollInterval == 50

(***************************************************************************)
(* JSON texts and Go values.                                               *)
(* A value is [t, s, hi, lo]: t = "str" (text s), "num" (the integer       *)
(* hi * 2^53 + lo), "null", or "chan" (a Go value JSON cannot encode).     *)
(* A JSON object text is the sequence of its members <<key, value>> in     *)
(* the order they are written; keys may repeat.                            *)
(***************************************************************************)
Str(s) == [t |-> "str", s |-> s, hi |-> 0, lo |-> 0]
Num(hi, lo) == [t |-> "num", s |-> "", hi |-> hi, lo |-> lo]
Null == [t |-> "null", s |-> "", hi |-> 0, lo |-> 0]
Chan == [t |-> "chan", s |-> "", hi |-> 0, lo |-> 0]

\* the keys that occur, in byte order (the order json.Marshal writes map keys)
KeysSorted == <<"Action", "action", "id", "state", "userId">>

BodyKeys == {"action", "Action", "state", "id"}
BodyVals == {Str("setup"), Str("teardown"), Str("s1"), Num(0, 42), Num(1, 1), Null}

RECURSIVE SeqsUpTo(_, _)
SeqsUpTo(S, n) ==
    IF n = 0 THEN {<<>>}
    ELSE LET shorter == SeqsUpTo(S, n - 1)
         IN  shorter \cup {Append(q, x) : q \in {p \in shorter : Len(p) = n - 1}, x \in S}

ObjectBodies == {[kind |-> "object", pairs |-> p] : p \in SeqsUpTo(BodyKeys \X BodyVals, MaxPairs)}
OtherBodies == {[kind |-> k, pairs |-> <<>>] : k \in {"malformed", "null", "array"}}
Bodies == ObjectBodies \cup OtherBodies

\* a Go map: nil, or a function from its keys to values
NilMap == [isNil |-> TRUE, kv |-> [k \in {} |-> Null]]
MakeMap(f) == [isNil |-> FALSE, kv |-> f]
MapDelete(mp, key) ==
    IF mp.isNil THEN mp
    ELSE MakeMap([k \in (DOMAIN mp.kv) \ {key} |-> mp.kv[k]])
MapSet(mp, key, val) ==
    MakeMap([k \in (DOMAIN mp.kv) \cup {key} |-> IF k = key THEN val ELSE mp.kv[k]])

\* strings.EqualFold on the keys that occur
Fold(k) == IF k = "Action" THEN "action" ELSE k

\* float64 of an integer literal: exact below 2^53; from 2^53 to 2^54 only
\* even integers exist, and a tie goes to the even mantissa
DecodeNumber(val) ==
    IF val.hi = 0 \/ val.lo % 2 = 0 THEN val
    ELSE IF (val.lo - 1) % 4 = 0 THEN Num(val.hi, val.lo - 1)
    ELSE Num(val.hi, val.lo + 1)

\* json.Unmarshal of one value into interface{}
DecodeValue(val) == IF val.t = "num" THEN DecodeNumber(val) ELSE val

\* the decoded control envelope (stateHandlerAction) and the decode error
ZeroState == [err |-> FALSE, Action |-> "", State |-> ""]

\* json.Unmarshal of an object's members into stateHandlerAction: a key
\* selects the field whose tag it equals, ignoring case; a string is stored,
\* null leaves the field alone, any other value is a type error and the
\* decoding goes on with the next member
RECURSIVE DecodeFields(_, _, _)
DecodeFields(pairs, i, st) ==
    IF i > Len(pairs) THEN st
    ELSE LET key == Fold(pairs[i][1])
             val == pairs[i][2]
             nxt == IF key \notin {"action", "state"} \/ val.t = "null" THEN st
                    ELSE IF val.t # "str" THEN [st EXCEPT !.err = TRUE]
                    ELSE IF key = "action" THEN [st EXCEPT !.Action = val.s]
                    ELSE [st EXCEPT !.State = val.s]
         IN  DecodeFields(pairs, i + 1, nxt)

\* json.Unmarshal(body, &state)
UnmarshalState(body) ==
    CASE body.kind = "malformed" -> [ZeroState EXCEPT !.err = TRUE]
      [] body.kind = "array"     -> [ZeroState EXCEPT !.err = TRUE]
      [] body.kind = "null"      -> ZeroState
      [] OTHER                   -> DecodeFields(body.pairs, 1, ZeroState)

\* the members of an object stored into a map one after the other
RECURSIVE DecodeMembers(_, _, _)
DecodeMembers(pairs, i, mp) ==
    IF i > Len(pairs) THEN mp
    ELSE DecodeMembers(pairs, i + 1, MapSet(mp, pairs[i][1], DecodeValue(pairs[i][2])))

\* json.Unmarshal(body, &params), params a nil map[string]interface{}
UnmarshalParams(body) ==
    CASE body.kind = "malformed" -> [err |-> TRUE, mp |-> NilMap]
      [] body.kind = "array"     -> [err |-> TRUE, mp |-> NilMap]
      [] body.kind = "null"      -> [err |-> FALSE, mp |-> NilMap]
      [] OTHER                   ->
           [err |-> FALSE, mp |-> DecodeMembers(body.pairs, 1, MakeMap([k \in {} |-> Null]))]

\* json.Marshal of a handler result: the members in key order, or an error
\* when a value has no JSON encoding
RECURSIVE MarshalFrom(_, _)
MarshalFrom(mp, i) ==
    IF i > Len(KeysSorted) THEN <<>>
    ELSE IF KeysSorted[i] \in DOMAIN mp.kv
         THEN <<(<<KeysSorted[i], mp.kv[KeysSorted[i]]>>)>> \o MarshalFrom(mp, i + 1)
         ELSE MarshalFrom(mp, i + 1)

Marshal(mp) ==
    IF \E k \in DOMAIN mp.kv : mp.kv[k].t = "chan"
    THEN [err |-> TRUE, text |-> <<>>]
    ELSE [err |-> FALSE, text |-> MarshalFrom(mp, 1)]

(***************************************************************************)
(* http.ResponseWriter: the first WriteHeader fixes the status and the     *)
(* headers that are sent; later ones are ignored; a Write before any       *)
(* WriteHeader sends 200 first.                                            *)
(* ops lists the calls made on the writer: who called, which method, and  *)
(* the status given to WriteHeader.                                        *)
(***************************************************************************)
NewResponseWriter ==
    [wroteHeader |-> FALSE, status |-> 0, header |-> {}, sent |-> {}, body |-> <<>>,
     ops |-> <<>>]

SendHeader(rw, code) ==
    IF rw.wroteHeader THEN rw
    ELSE [rw EXCEPT !.wroteHeader = TRUE, !.status = code, !.sent = rw.header]

WriteHeader(rw, by, code) ==
    [SendHeader(rw, code) EXCEPT
        !.ops = Append(@, [by |-> by, op |-> "WriteHeader", code |-> code])]

HeaderAdd(rw, by, key, val) ==
    [rw EXCEPT !.header = @ \cup {<<key, val>>},
               !.ops = Append(@, [by |-> by, op |-> "Header.Add", code |-> 0])]

Write(rw, by, text) ==
    [SendHeader(rw, StatusOK) EXCEPT
        !.body = Append(@, [by |-> by, text |-> text]),
        !.ops = Append(@, [by |-> by, op |-> "Write", code |-> 0])]

\* the state of one exchange while it is served
Logged(st, ev) == [st EXCEPT !.log = Append(@, ev)]
WithW(st, rw) == [st EXCEPT !.w = rw]

(***************************************************************************)
(* The middleware pipeline.  A middleware is applied to the exchange state *)
(* st = [w, log, calls] and the inputs of the exchange: the request and    *)
(* what the hooks, the state handler, the request filter and the provider  *)
(* answer when they are called.  Serve(i, st, in) is ServeHTTP of the      *)
(* handler that wraps the middlewares i.. around the proxy.                *)
(***************************************************************************)
RECURSIVE Serve(_, _, _)

\* mutant: a failing before hook ends the exchange
beforeEachMiddleware_shortCircuit(i, st, in) ==
    IF in.Path = providerStatesSetupPath /\ in.beforeErr
    THEN LET a == Logged(Logged(st, "BeforeEach"), "BeforeEach.err")
         IN  WithW(a, WriteHeader(a.w, "beforeEach", StatusInternalServerError))
    ELSE Serve(i + 1, Logged(IF in.Path = providerStatesSetupPath
                             THEN Logged(st, "BeforeEach") ELSE st,
                             "beforeEach.next"), in)

\* mutant: the error of the before hook is only logged
beforeEachMiddleware_onlyLogs(i, st, in) ==
    LET hooked == IF in.Path = providerStatesSetupPath
                  THEN LET a == Logged(st, "BeforeEach")
                       IN  IF in.beforeErr THEN Logged(a, "BeforeEach.err") ELSE a
                  ELSE st
    IN  Serve(i + 1, Logged(hooked, "beforeEach.next"), in)

\* beforeEachMiddleware: runs the hook on the setup path only, then always
\* goes on with the chain
beforeEachMiddleware(i, st, in) ==
    LET hooked == IF in.Path = providerStatesSetupPath
                  THEN LET a == Logged(st, "BeforeEach")
                       IN  IF in.beforeErr
                           THEN WithW(Logged(a, "BeforeEach.err"),
                                      WriteHeader(a.w, "beforeEach", StatusInternalServerError))
                           ELSE a
                  ELSE st
    IN  Serve(i + 1, Logged(hooked, "beforeEach.next"), in)

\* mutant: the after hook runs before the chain
afterEachMiddleware_hookFirst(i, st, in) ==
    LET hooked == IF in.Path # providerStatesSetupPath
                  THEN LET a == Logged(st, "AfterEach")
                       IN  IF in.afterErr
                           THEN WithW(Logged(a, "AfterEach.err"),
                                      WriteHeader(a.w, "afterEach", StatusInternalServerError))
                           ELSE a
                  ELSE st
    IN  Logged(Serve(i + 1, Logged(hooked, "afterEach.next"), in), "afterEach.return")

\* afterEachMiddleware: the chain first, then the hook off the setup path
afterEachMiddleware(i, st, in) ==
    LET served == Logged(Serve(i + 1, Logged(st, "afterEach.next"), in), "afterEach.return")
    IN  IF in.Path # providerStatesSetupPath
        THEN LET a == Logged(served, "AfterEach")
             IN  IF in.afterErr
                 THEN WithW(Logged(a, "AfterEach.err"),
                            WriteHeader(a.w, "afterEach", StatusInternalServerError))
                 ELSE a
        ELSE served

\* mutant: the key "state" is left among the params
ExtractParams_keepState(mp) == MapDelete(mp, "action")

\* delete(params, "action"); delete(params, "state")
ExtractParams(mp) == MapDelete(MapDelete(mp, "action"), "state")

\* mutant: every call of a state handler is a setup call
InvokeStateHandler_alwaysSetup(st, state, params, in) ==
    [Logged(st, "sf") EXCEPT !.calls =
        Append(@, [handler |-> state.State, setup |-> TRUE,
                   Name |-> state.State, Parameters |-> params,
                   res |-> in.sfRes, err |-> in.sfErr])]

\* res, err := sf(state.Action == "setup", ProviderState{Name, Parameters}):
\* the call is recorded with what the handler returned
InvokeStateHandler(st, state, params, in) ==
    [Logged(st, "sf") EXCEPT !.calls =
        Append(@, [handler |-> state.State, setup |-> (state.Action = "setup"),
                   Name |-> state.State, Parameters |-> params,
                   res |-> in.sfRes, err |-> in.sfErr])]

\* mutant: the body is written without the content-type header
WriteResult_noContentType(st, in) ==
    IF ~in.sfRes.isNil
    THEN LET resBody == Marshal(in.sfRes)
         IN  IF resBody.err
             THEN WithW(st, WriteHeader(st.w, "stateHandler", StatusInternalServerError))
             ELSE WithW(st, WriteHeader(Write(st.w, "stateHandler", resBody.text),
                                        "stateHandler", StatusOK))
    ELSE WithW(st, WriteHeader(st.w, "stateHandler", StatusOK))

\* the bridge after a successful handler call: the result, if any, is
\* written as JSON
WriteResult(st, in) ==
    IF ~in.sfRes.isNil
    THEN LET resBody == Marshal(in.sfRes)
         IN  IF resBody.err
             THEN WithW(st, WriteHeader(st.w, "stateHandler", StatusInternalServerError))
             ELSE WithW(st, WriteHeader(
                      Write(HeaderAdd(st.w, "stateHandler", "content-type", "application/json"),
                            "stateHandler", resBody.text),
                      "stateHandler", StatusOK))
    ELSE WithW(st, WriteHeader(st.w, "stateHandler", StatusOK))

\* mutant: a decode failure is answered 200
DecodeFailed_200(st) ==
    WithW(st, WriteHeader(st.w, "stateHandler", StatusOK))

\* the payload does not decode: 500, and the bridge returns
DecodeFailed(st) ==
    WithW(st, WriteHeader(st.w, "stateHandler", StatusInternalServerError))

\* mutant: a missing handler is treated as an error
HandlerMissing_500(st) ==
    WithW(st, WriteHeader(st.w, "stateHandler", StatusInternalServerError))

\* no handler is registered for the state: a warning, then the final 200
HandlerMissing(st) ==
    WithW(st, WriteHeader(st.w, "stateHandler", StatusOK))

\* mutant: the error of the handler is only logged
HandlerErrored_200(st) ==
    WithW(st, WriteHeader(st.w, "stateHandler", StatusOK))

\* the handler returned an error: 500, and the bridge returns
HandlerErrored(st) ==
    WithW(st, WriteHeader(st.w, "stateHandler", StatusInternalServerError))

\* the bridge on the setup path
HandleSetup(st, in) ==
    LET state == UnmarshalState(in.Body)
        p == UnmarshalParams(in.Body)
    IN  IF state.err \/ p.err
        THEN DecodeFailed(st)
        ELSE IF state.State \notin request.StateHandlers
        THEN HandlerMissing(st)
        ELSE LET called == InvokeStateHandler(st, state, ExtractParams(p.mp), in)
             IN  IF in.sfErr
                 THEN HandlerErrored(called)
                 ELSE WriteResult(called, in)

\* mutant: the bridge goes on with the chain after handling the setup path
stateHandlerMiddleware_fallThrough(i, st, in) ==
    IF in.Path = providerStatesSetupPath
    THEN Serve(i + 1, Logged(HandleSetup(Logged(st, "stateHandler"), in), "stateHandler.next"), in)
    ELSE Serve(i + 1, Logged(st, "stateHandler.next"), in)

\* stateHandlerMiddleware
stateHandlerMiddleware(i, st, in) ==
    IF in.Path = providerStatesSetupPath
    THEN HandleSetup(Logged(st, "stateHandler"), in)
    ELSE Serve(i + 1, Logged(st, "stateHandler.next"), in)

\* message.CreateMessageHandler: answers the message path, passes the rest on
messageMiddleware(i, st, in) ==
    IF in.Path = messagesPath
    THEN WithW(Logged(st, "message"), Write(st.w, "message", <<>>))
    ELSE Serve(i + 1, Logged(st, "message.next"), in)

\* the caller's request filter: passes the request on, or answers it itself
requestFilter(i, st, in) ==
    IF in.filterPass
    THEN Serve(i + 1, Logged(st, "filter.next"), in)
    ELSE WithW(Logged(st, "filter"), WriteHeader(st.w, "filter", 401))

\* paths under the proxy's internal request path prefix
InternalPaths == {"/__setup", "/__setup/"}

\* the reverse proxy behind the chain: internal requests are answered
\* without the provider, everything else is forwarded to it
proxyHandler(st, in) ==
    IF in.Path \in InternalPaths
    THEN Logged(st, "proxy.internal")
    ELSE WithW(Logged(st, "provider"),
               Write(WriteHeader(st.w, "proxy", in.providerStatus), "proxy", <<>>))

Serve(i, st, in) ==
    IF i > Len(m) THEN proxyHandler(st, in)
    ELSE CASE m[i] = "beforeEach"   -> beforeEachMiddleware(i, st, in)
           [] m[i] = "afterEach"    -> afterEachMiddleware(i, st, in)
           [] m[i] = "stateHandler" -> stateHandlerMiddleware(i, st, in)
           [] m[i] = "message"      -> messageMiddleware(i, st, in)
           [] OTHER                 -> requestFilter(i, st, in)

\* the middleware list verifyProviderRaw builds from the request
BuildMiddleware(req) ==
    (IF req.BeforeEach THEN <<"beforeEach">> ELSE <<>>)
    \o (IF req.AfterEach THEN <<"afterEach">> ELSE <<>>)
    \o (IF Cardinality(req.StateHandlers) > 0 THEN <<"stateHandler">> ELSE <<>>)
    \o (IF Cardinality(req.MessageHandlers) > 0 THEN <<"message">> ELSE <<>>)
    \o (IF req.RequestFilter THEN <<"filter">> ELSE <<>>)

(***************************************************************************)
(* The orchestrator: VerifyProvider and verifyProviderRaw.                 *)
(* A URL or an address is the sequence of the pieces fmt.Sprintf puts      *)
(* together; url.Parse takes it apart again.                               *)
(***************************************************************************)
PathTexts == {"/api", "/__setup"}
PortText(p) == CASE p = 50001 -> "50001" [] p = 50002 -> "50002" [] OTHER -> "0"

\* url.Parse(text): u.Scheme, u.Hostname(), u.Port(), u.Path
ParseURL(text) ==
    LET abs == Len(text) >= 3 /\ text[2] = "://"
    IN  [Scheme   |-> IF abs THEN text[1] ELSE "",
         Hostname |-> IF abs THEN text[3] ELSE "",
         Port     |-> IF abs /\ Len(text) >= 5 /\ text[4] = ":" THEN text[5] ELSE "",
         Path     |-> IF Len(text) >= 1 /\ text[Len(text)] \in PathTexts
                      THEN text[Len(text)] ELSE ""]

\* fmt.Sprintf("http://localhost:%d", port)
DummyURL(p) == <<"http", "://", "localhost", ":", PortText(p)>>
\* fmt.Sprintf("%s:%d", v.Hostname, port), the address the dummy server binds
DummyAddress(hostname, p) == <<hostname, ":", PortText(p)>>
\* fmt.Sprintf("http://localhost:%d%s", port, providerStatesSetupPath)
SetupURL(p) == <<"http", "://", "localhost", ":", PortText(p), providerStatesSetupPath>>

\* proxy.Options
NoOptions ==
    [TargetAddress |-> <<>>, TargetScheme |-> "", TargetPath |-> "", Middleware |-> <<>>,
     InternalRequestPathPrefix |-> ""]
ProxyOptions(req) ==
    LET u == ParseURL(req.ProviderBaseURL)
    IN  [TargetAddress |-> <<u.Hostname, ":", u.Port>>,
         TargetScheme |-> u.Scheme,
         TargetPath |-> u.Path,
         Middleware |-> BuildMiddleware(req),
         InternalRequestPathPrefix |-> providerStatesSetupPath]

\* the message transport appended when message handlers are registered
\* (Port: uint16(port))
MessageTransport(p) == [Path |-> messagesPath, Protocol |-> "message", Port |-> p % 65536]

\* a variant that appends the message transport whatever is registered
AfterProxyStart_alwaysTransport(req, p) ==
    LET withTransport == [req EXCEPT !.Transports = Append(@, MessageTransport(p))]
    IN  IF withTransport.ProviderStatesSetupURL = <<>> /\ Cardinality(req.StateHandlers) > 0
        THEN [withTransport EXCEPT !.ProviderStatesSetupURL = SetupURL(p)]
        ELSE withTransport

\* a variant that sets the provider-states URL over the caller's own value
AfterProxyStart_overridesURL(req, p) ==
    LET withTransport ==
            IF Cardinality(req.MessageHandlers) > 0
            THEN [req EXCEPT !.Transports = Append(@, MessageTransport(p))]
            ELSE req
    IN  IF Cardinality(req.StateHandlers) > 0
        THEN [withTransport EXCEPT !.ProviderStatesSetupURL = SetupURL(p)]
        ELSE withTransport

\* the request once the proxy has been started on port p: the message
\* transport and the default of the legacy provider-states URL
AfterProxyStart(req, p) ==
    LET withTransport ==
            IF Cardinality(req.MessageHandlers) > 0
            THEN [req EXCEPT !.Transports = Append(@, MessageTransport(p))]
            ELSE req
    IN  IF withTransport.ProviderStatesSetupURL = <<>> /\ Cardinality(req.StateHandlers) > 0
        THEN [withTransport EXCEPT !.ProviderStatesSetupURL = SetupURL(p)]
        ELSE withTransport

\* what callers configure
ClientTimeouts == {0, 100}
Hostnames == {"", "10.0.0.5"}
ProviderURLs ==
    {<<>>, <<"http", "://", "provider.example", ":", "8080", "/api">>,
     <<"https", "://", "provider.example">>}
StateHandlerSets == {{}, {"s1"}, {"s1", "setup"}}

VerifyRequests ==
    [ProviderBaseURL : ProviderURLs, BeforeEach : BOOLEAN, AfterEach : BOOLEAN,
     StateHandlers : {{}, {"s1"}}, MessageHandlers : {{}, {"a message"}},
     RequestFilter : BOOLEAN,
     ProviderStatesSetupURL : {<<>>, <<"http", "://", "provider.example", ":", "8080", "/__setup">>},
     Transports : {<<>>, <<[Path |-> "/grpc", Protocol |-> "grpc", Port |-> 9090]>>}]

NoRequest == [Path |-> "", Body |-> [kind |-> "null", pairs |-> <<>>]]

\* the goroutines of the HTTP server that serve /__setup at the same time
Goroutines == 1..MaxGoroutines

\* a goroutine without an exchange: the locals of the handler function
\* (state, buf, params, res, err) and its writer
NoExchange ==
    [at |-> "idle", Body |-> NoRequest.Body, buf |-> NoRequest.Body, state |-> ZeroState,
     params |-> NilMap, sfErr |-> FALSE, sfRes |-> NilMap,
     st |-> [w |-> NewResponseWriter, log |-> <<>>, calls |-> <<>>]]

ProxyIdle ==
    /\ phase = "idle"
    /\ r = NoRequest
    /\ w = NewResponseWriter
    /\ log = <<>>
    /\ calls = <<>>
    /\ conc = [g \in Goroutines |-> NoExchange]

\* time.Duration printed with %s, for durations of less than a minute
DurationText(ms) == IF ms % 1000 = 0 THEN <<ms \div 1000, "s">> ELSE <<ms, "ms">>

\* the message verifyProviderRaw hands to WaitForPort
WaitMessage(p) ==
    <<"Timed out waiting for http verification proxy on port ", PortText(p),
      " - check for errors">>

\* fmt.Errorf("expected server to start < %s. %s", timeoutDuration, message)
PortTimeoutText(timeoutDuration, message) ==
    <<"expected server to start < ">> \o DurationText(timeoutDuration) \o <<". ">> \o message

\* the dials WaitForPort has made: their number, the time of the first and
\* of the last one, and whether the last one succeeded
NoDial == [n |-> 0, first |-> 0, last |-> 0, ok |-> FALSE]

\* VerifyProvider is called with a request on a fresh Verifier
InitVerify ==
    /\ v \in [ClientTimeout : ClientTimeouts, Hostname : Hostnames]
    /\ request \in VerifyRequests
    /\ given = request
    /\ result = "none"
    /\ dial = NoDial
    /\ portErrText = <<>>
    /\ pc = "start"
    /\ ret = "none"
    /\ dummy = <<>>
    /\ opts = NoOptions
    /\ m = <<>>
    /\ port = 0
    /\ proxyErr = FALSE
    /\ listening = FALSE
    /\ now = 0
    /\ portErr = "none"
    /\ engine = <<>>
    /\ tFailed = FALSE
    /\ steps = <<>>
    /\ ProxyIdle

Step(name) == steps' = Append(steps, name)

\* validateConfig: the defaults of ClientTimeout and Hostname
validateConfig ==
    /\ pc = "start"
    /\ v' = [ClientTimeout |-> IF v.ClientTimeout = 0 THEN DefaultClientTimeout
                               ELSE v.ClientTimeout,
             Hostname |-> IF v.Hostname = "" THEN "localhost" ELSE v.Hostname]
    /\ pc' = "provider"
    /\ Step("defaults")
    /\ UNCHANGED <<request, ret, dummy, opts, m, port, proxyErr, listening, now, portErr,
                   engine, tFailed, hvars, given, result, dial, portErrText, conc>>

\* no provider was given: a free port, the dummy server on its own
\* goroutine, and its URL as the provider base URL
StartDummyServer ==
    /\ pc = "provider"
    /\ request.ProviderBaseURL = <<>>
    /\ \E p \in {50001} :
          /\ dummy' = Append(dummy, DummyAddress(v.Hostname, p))
          /\ request' = [request EXCEPT !.ProviderBaseURL = DummyURL(p)]
    /\ pc' = "validate"
    /\ Step("dummy")
    /\ UNCHANGED <<v, ret, opts, m, port, proxyErr, listening, now, portErr, engine,
                   tFailed, hvars, given, result, dial, portErrText, conc>>

\* utils.GetFreePort fails: log.Panic
NoFreePort ==
    /\ pc = "provider"
    /\ request.ProviderBaseURL = <<>>
    /\ pc' = "panicked"
    /\ UNCHANGED <<v, request, ret, dummy, opts, m, port, proxyErr, listening, now,
                   portErr, engine, tFailed, steps, hvars, given, result, dial, portErrText, conc>>

\* a variant that starts the dummy server whether or not a provider was given
ProviderGiven_startsDummy ==
    /\ pc = "provider"
    /\ request.ProviderBaseURL # <<>>
    /\ dummy' = Append(dummy, DummyAddress(v.Hostname, 50001))
    /\ pc' = "validate"
    /\ UNCHANGED <<v, request, ret, opts, m, port, proxyErr, listening, now,
                   portErr, engine, tFailed, steps, hvars, given, result, dial, portErrText, conc>>

\* a provider was given
ProviderGiven ==
    /\ pc = "provider"
    /\ request.ProviderBaseURL # <<>>
    /\ pc' = "validate"
    /\ UNCHANGED <<v, request, ret, dummy, opts, m, port, proxyErr, listening, now,
                   portErr, engine, tFailed, steps, hvars, given, result, dial, portErrText, conc>>

\* a variant that goes on to the proxy after a validation error
ValidateRequest_ignoresError ==
    /\ pc = "validate"
    /\ \E ok \in BOOLEAN :
          /\ pc' = "proxy"
          /\ ret' = IF ok THEN ret ELSE "validate error"
    /\ Step("validate")
    /\ UNCHANGED <<v, request, dummy, opts, m, port, proxyErr, listening, now, portErr,
                   engine, tFailed, hvars, given, result, dial, portErrText, conc>>

\* request.validate(v.handle): an error is returned at once
ValidateRequest ==
    /\ pc = "validate"
    /\ \E ok \in BOOLEAN :
          /\ pc' = IF ok THEN "proxy" ELSE "returned"
          /\ ret' = IF ok THEN ret ELSE "validate error"
    /\ Step("validate")
    /\ UNCHANGED <<v, request, dummy, opts, m, port, proxyErr, listening, now, portErr,
                   engine, tFailed, hvars, given, result, dial, portErrText, conc>>

\* the middleware list, the proxy options, proxy.HTTPReverseProxy (whose
\* error is not looked at), the message transport and the provider-states
\* URL; then WaitForPort is called
StartProxy ==
    /\ pc = "proxy"
    /\ m' = BuildMiddleware(request)
    /\ opts' = ProxyOptions(request)
    /\ \E ok \in BOOLEAN :
          /\ port' = IF ok THEN 50002 ELSE 0
          /\ proxyErr' = ~ok
    /\ request' = AfterProxyStart(request, port')
    /\ now' = 0
    /\ pc' = "waitForPort"
    /\ Step("proxy")
    /\ UNCHANGED <<v, ret, dummy, listening, portErr, engine, tFailed, hvars, given, result,
                   dial, portErrText, conc>>

\* the listener of a proxy that started becomes reachable
ProxyListens ==
    /\ pc = "waitForPort"
    /\ ~proxyErr /\ ~listening
    /\ listening' = TRUE
    /\ UNCHANGED <<v, request, pc, ret, dummy, opts, m, port, proxyErr, now, portErr,
                   engine, tFailed, steps, hvars, given, result, dial, portErrText, conc>>

\* a variant that returns nil after the first dial, whatever its outcome
WaitForPortTick_ignoresDial ==
    /\ pc = "waitForPort"
    /\ now + PollInterval <= v.ClientTimeout
    /\ now' = now + PollInterval
    /\ dial' = [n |-> dial.n + 1, first |-> IF dial.n = 0 THEN now' ELSE dial.first,
                last |-> now', ok |-> listening]
    /\ portErr' = "nil"
    /\ pc' = "portChecked"
    /\ Step("wait")
    /\ UNCHANGED <<v, request, ret, dummy, opts, m, port, proxyErr, listening, engine,
                   tFailed, hvars, given, result, portErrText, conc>>

\* WaitForPort, case <-time.After(50 * time.Millisecond): one dial; the loop
\* goes on when it fails
WaitForPortTick ==
    /\ pc = "waitForPort"
    /\ now + PollInterval <= v.ClientTimeout
    /\ now' = now + PollInterval
    /\ dial' = [n |-> dial.n + 1, first |-> IF dial.n = 0 THEN now' ELSE dial.first,
                last |-> now', ok |-> listening]
    /\ IF listening
       THEN /\ portErr' = "nil"
            /\ pc' = "portChecked"
            /\ Step("wait")
       ELSE UNCHANGED <<portErr, pc, steps>>
    /\ UNCHANGED <<v, request, ret, dummy, opts, m, port, proxyErr, listening, engine,
                   tFailed, hvars, given, result, portErrText, conc>>

\* WaitForPort, case <-timeout: the error with the caller's message
WaitForPortTimeout ==
    /\ pc = "waitForPort"
    /\ v.ClientTimeout <= now + PollInterval
    /\ now' = v.ClientTimeout
    /\ portErr' = "expected server to start"
    /\ portErrText' = PortTimeoutText(v.ClientTimeout, WaitMessage(port))
    /\ pc' = "portChecked"
    /\ Step("wait")
    /\ UNCHANGED <<v, request, ret, dummy, opts, m, port, proxyErr, listening, engine,
                   tFailed, hvars, given, result, dial, conc>>

\* if portErr != nil { log.Fatal("Error:", err); return portErr }:
\* log.Fatal ends the process, the return after it is never reached
PortFailed ==
    /\ pc = "portChecked"
    /\ portErr # "nil"
    /\ pc' = "exited"
    /\ UNCHANGED <<v, request, ret, dummy, opts, m, port, proxyErr, listening, now,
                   portErr, engine, tFailed, steps, hvars, given, result, dial, portErrText, conc>>

\* request.Verify(v.handle, writer) is called
VerifyStarts ==
    /\ pc = "portChecked"
    /\ portErr = "nil"
    /\ engine' = Append(engine, request)
    /\ pc' = "verifying"
    /\ Step("engine")
    /\ UNCHANGED <<v, request, ret, dummy, opts, m, port, proxyErr, listening, now,
                   portErr, tFailed, hvars, given, result, dial, portErrText, conc>>

\* request.Verify returns, and verifyProviderRaw returns its result
VerifyReturns ==
    /\ pc = "verifying"
    /\ \E res \in {"nil", "verify error"} : ret' = res
    /\ pc' = "returned"
    /\ UNCHANGED <<v, request, dummy, opts, m, port, proxyErr, listening, now, portErr,
                   engine, tFailed, steps, hvars, given, result, dial, portErrText, conc>>

\* a variant that never reports the error to the test
VerifyProvider_neverFails ==
    /\ pc = "returned"
    /\ tFailed' = FALSE
    /\ result' = ret
    /\ pc' = "done"
    /\ UNCHANGED <<v, request, ret, dummy, opts, m, port, proxyErr, listening, now,
                   portErr, engine, steps, hvars, given, dial,
                   portErrText, conc>>

\* VerifyProvider: t.Run reports the error, if any, and the error is returned
VerifyProvider ==
    /\ pc = "returned"
    /\ tFailed' = (ret # "nil")
    /\ result' = ret
    /\ pc' = "done"
    /\ UNCHANGED <<v, request, ret, dummy, opts, m, port, proxyErr, listening, now,
                   portErr, engine, steps, hvars, given, dial,
                   portErrText, conc>>

NextVerify ==
    \/ validateConfig
    \/ StartDummyServer
    \/ NoFreePort
    \/ ProviderGiven
    \/ ValidateRequest
    \/ StartProxy
    \/ ProxyListens
    \/ WaitForPortTick
    \/ WaitForPortTimeout
    \/ PortFailed
    \/ VerifyStarts
    \/ VerifyReturns
    \/ VerifyProvider

SpecVerify == InitVerify /\ [][NextVerify]_vars

\* the timers of WaitForPort fire: of the cases of its select that are
\* ready one is taken
SpecWait ==
    SpecVerify /\ WF_vars(WaitForPortTick) /\ WF_vars(WaitForPortTimeout)

(***************************************************************************)
(* The proxy serving the exchanges of the verification engine              *)
(***************************************************************************)
Paths == {"/__setup", "/__setup/", "/users", "/__messages"}

\* the bodies sent on the other paths: an empty object, a broken text and a
\* complete state-change instruction
PlainBodies ==
    {[kind |-> "object", pairs |-> <<>>], [kind |-> "malformed", pairs |-> <<>>],
     [kind |-> "object", pairs |-> << <<"action", Str("setup")>>, <<"state", Str("s1")>> >>]}

\* what a state handler returns
HandlerResults ==
    {NilMap, MakeMap([k \in {} |-> Null]),
     MakeMap([k \in {"userId", "id"} |-> IF k = "userId" THEN Num(0, 42) ELSE Str("s1")]),
     MakeMap([k \in {"userId"} |-> Chan])}

HandlerOutcomes ==
    {[err |-> FALSE, res |-> x] : x \in HandlerResults}
    \cup {[err |-> TRUE, res |-> NilMap], [err |-> TRUE, res |-> MakeMap([k \in {} |-> Null])]}

\* the requests whose hooks and handlers shape the pipeline, as callers
\* configure them
ProxyRequests ==
    [ProviderBaseURL : {<<"http", "://", "provider.example", ":", "8080", "/api">>},
     BeforeEach : BOOLEAN, AfterEach : BOOLEAN, StateHandlers : StateHandlerSets,
     MessageHandlers : {{}, {"a message"}}, RequestFilter : BOOLEAN,
     ProviderStatesSetupURL : {<<>>}, Transports : {<<>>}]

\* the engine is running: verifyProviderRaw has started the proxy on the
\* request's middleware, found it reachable and called request.Verify
Init ==
    /\ v = [ClientTimeout |-> DefaultClientTimeout, Hostname |-> "localhost"]
    /\ \E req \in ProxyRequests :
          /\ given = req
          /\ request = AfterProxyStart(req, 50002)
          /\ opts = ProxyOptions(req)
          /\ m = BuildMiddleware(req)
    /\ pc = "verifying"
    /\ ret = "none"
    /\ dummy = <<>>
    /\ port = 50002
    /\ proxyErr = FALSE
    /\ listening = TRUE
    /\ now = PollInterval
    /\ dial = [n |-> 1, first |-> PollInterval, last |-> PollInterval, ok |-> TRUE]
    /\ result = "none"
    /\ portErrText = <<>>
    /\ portErr = "nil"
    /\ engine = <<request>>
    /\ tFailed = FALSE
    /\ steps = <<"defaults", "validate", "proxy", "wait", "engine">>
    /\ ProxyIdle

\* the server once the handler has returned: a response nobody wrote a
\* status for is sent as 200
FinishResponse(rw) == SendHeader(rw, StatusOK)

\* one exchange: the engine sends a request, the chain serves it
ServeHTTP ==
    /\ pc = "verifying"
    /\ phase = "idle"
    /\ \E path \in Paths :
       \E body \in (IF path = providerStatesSetupPath THEN Bodies ELSE PlainBodies) :
       \E beforeErr \in (IF path = providerStatesSetupPath THEN BOOLEAN ELSE {FALSE}) :
       \E afterErr \in (IF path # providerStatesSetupPath THEN BOOLEAN ELSE {FALSE}) :
       \E sf \in (IF path = providerStatesSetupPath THEN HandlerOutcomes
                  ELSE {[err |-> FALSE, res |-> NilMap]}) :
       \E filterPass \in (IF path # providerStatesSetupPath THEN BOOLEAN ELSE {TRUE}) :
       \E providerStatus \in (IF path # providerStatesSetupPath THEN {200, 404} ELSE {200}) :
          LET in == [Path |-> path, Body |-> body, beforeErr |-> beforeErr,
                     afterErr |-> afterErr, sfErr |-> sf.err, sfRes |-> sf.res,
                     filterPass |-> filterPass, providerStatus |-> providerStatus]
              out == Serve(1, [w |-> NewResponseWriter, log |-> <<>>, calls |-> <<>>], in)
          IN  /\ r' = [Path |-> path, Body |-> body]
              /\ w' = FinishResponse(out.w)
              /\ log' = out.log
              /\ calls' = out.calls
    /\ phase' = "done"
    /\ UNCHANGED <<ovars, conc>>

\* the engine has read the response; the proxy waits for the next request
NextExchange ==
    /\ phase = "done"
    /\ phase' = "idle"
    /\ r' = NoRequest
    /\ w' = NewResponseWriter
    /\ log' = <<>>
    /\ calls' = <<>>
    /\ UNCHANGED <<ovars, conc>>

Next == ServeHTTP \/ NextExchange

Spec == Init /\ [][Next]_vars

(***************************************************************************)
(* The bridge serving several /__setup requests at the same time: every    *)
(* request has a goroutine of its own, and the steps of the goroutines     *)
(* interleave.                                                             *)
(***************************************************************************)
\* the bodies of the requests that are in service together
ConcurrentBodies ==
    {[kind |-> "object", pairs |-> << <<"action", Str("setup")>>, <<"state", Str("s1")>> >>],
     [kind |-> "object", pairs |-> << <<"state", Str("s1")>>, <<"id", Num(0, 42)>> >>],
     [kind |-> "object", pairs |-> << <<"state", Str("setup")>>, <<"action", Str("teardown")>> >>],
     [kind |-> "malformed", pairs |-> <<>>]}

\* a proxy whose chain is the bridge alone
InitConcurrent ==
    /\ Init
    /\ m = <<"stateHandler">>

\* what the handler function of goroutine g is given for its exchange
InputOf(c, g) ==
    [Path |-> providerStatesSetupPath, Body |-> c[g].Body, beforeErr |-> FALSE,
     afterErr |-> FALSE, sfErr |-> c[g].sfErr, sfRes |-> c[g].sfRes,
     filterPass |-> TRUE, providerStatus |-> StatusOK]

\* the server hands a /__setup request to a goroutine
Accept(g) ==
    /\ pc = "verifying"
    /\ conc[g].at = "idle"
    /\ \E body \in ConcurrentBodies :
          conc' = [conc EXCEPT ![g] = [NoExchange EXCEPT !.at = "accepted", !.Body = body]]
    /\ UNCHANGED <<ovars, hvars>>

\* a variant whose buffer is shared by the goroutines: it holds the body of
\* another exchange in service, when there is one
BodyRead_shared(c, g) ==
    IF \E h \in Goroutines : h # g /\ c[h].at # "idle"
    THEN c[CHOOSE h \in Goroutines : h # g /\ c[h].at # "idle"].Body
    ELSE c[g].Body

\* buf := new(strings.Builder); io.Copy(buf, r.Body)
BodyRead(c, g) == c[g].Body

\* the body is read and decoded twice, and the control keys are deleted
\* from the params; a decode error is answered at once
Decode(g) ==
    /\ conc[g].at = "accepted"
    /\ LET buf == BodyRead(conc, g)
           state == UnmarshalState(buf)
           p == UnmarshalParams(buf)
           entered == Logged(conc[g].st, "stateHandler")
       IN  conc' = [conc EXCEPT ![g] =
                IF state.err \/ p.err
                THEN [@ EXCEPT !.at = "done", !.buf = buf, !.st = DecodeFailed(entered)]
                ELSE [@ EXCEPT !.at = "decoded", !.buf = buf, !.state = state,
                               !.params = ExtractParams(p.mp), !.st = entered]]
    /\ UNCHANGED <<ovars, hvars>>

\* sf, stateFound := stateHandlers[state.State]
Lookup(g) ==
    /\ conc[g].at = "decoded"
    /\ conc' = [conc EXCEPT ![g] =
            IF conc[g].state.State \notin request.StateHandlers
            THEN [@ EXCEPT !.at = "done", !.st = HandlerMissing(@)]
            ELSE [@ EXCEPT !.at = "found"]]
    /\ UNCHANGED <<ovars, hvars>>

\* the state handler is called and returns
Invoke(g) ==
    /\ conc[g].at = "found"
    /\ \E sf \in HandlerOutcomes :
          LET met == [conc EXCEPT ![g].sfErr = sf.err, ![g].sfRes = sf.res]
          IN  conc' = [met EXCEPT ![g].at = "called",
                                  ![g].st = InvokeStateHandler(@, met[g].state, met[g].params,
                                                               InputOf(met, g))]
    /\ UNCHANGED <<ovars, hvars>>

\* the result of the handler is answered
Respond(g) ==
    /\ conc[g].at = "called"
    /\ conc' = [conc EXCEPT ![g].at = "done",
                            ![g].st = IF conc[g].sfErr THEN HandlerErrored(@)
                                      ELSE WriteResult(@, InputOf(conc, g))]
    /\ UNCHANGED <<ovars, hvars>>

\* the handler function has returned and the server sends the response
Send(g) ==
    /\ conc[g].at = "done"
    /\ conc' = [conc EXCEPT ![g].at = "sent", ![g].st.w = FinishResponse(@)]
    /\ UNCHANGED <<ovars, hvars>>

\* the goroutine is free for the next request
Release(g) ==
    /\ conc[g].at = "sent"
    /\ conc' = [conc EXCEPT ![g] = NoExchange]
    /\ UNCHANGED <<ovars, hvars>>

NextConcurrent ==
    \E g \in Goroutines :
        \/ Accept(g)
        \/ Decode(g)
        \/ Lookup(g)
        \/ Invoke(g)
        \/ Respond(g)
        \/ Send(g)
        \/ Release(g)

SpecConcurrent == InitConcurrent /\ [][NextConcurrent]_vars

(***************************************************************************)
(* Properties of a run of verifyProviderRaw                                *)
(***************************************************************************)
\* WaitForPort gave up: no dial succeeded within ClientTimeout
PortWaitTimedOut == portErr \notin {"none", "nil"}

\* C1: when the proxy port does not become reachable within ClientTimeout,
\* verifyProviderRaw returns the readiness-timeout error to its caller, and
\* the verification engine is not invoked in that run.
C1_PortTimeoutIsReturned ==
    (PortWaitTimedOut /\ pc # "portChecked") =>
        /\ pc \in {"returned", "done"}
        /\ ret = portErr
        /\ engine = <<>>

(***************************************************************************)
(* Properties of an exchange the proxy has served                          *)
(***************************************************************************)
Served == phase = "done"
OnSetupPath == r.Path = providerStatesSetupPath
InPipeline(name) == \E i \in DOMAIN m : m[i] = name

Has(ev) == \E i \in DOMAIN log : log[i] = ev
Count(ev) == Cardinality({i \in DOMAIN log : log[i] = ev})
First(ev) == CHOOSE i \in DOMAIN log : log[i] = ev /\ \A j \in 1..(i - 1) : log[j] # ev

\* what lies behind the state-handler bridge: message bridge, request
\* filter, proxy and provider
BehindBridge ==
    {"stateHandler.next", "message", "message.next", "filter", "filter.next",
     "proxy.internal", "provider"}

\* the calls the bridge made on the response writer
BridgeOps == SelectSeq(w.ops, LAMBDA o : o.by = "stateHandler")
ContentTypeJSON == <<"content-type", "application/json">>

\* the request body read as a JSON object: its keys, and the value written
\* last for a key
MemberKeys(body) == {body.pairs[i][1] : i \in DOMAIN body.pairs}
LastOf(body, k) ==
    body.pairs[CHOOSE i \in DOMAIN body.pairs :
                  /\ body.pairs[i][1] = k
                  /\ \A j \in DOMAIN body.pairs : j > i => body.pairs[j][1] # k][2]

\* a body the bridge cannot decode: no JSON, no object, or a control key
\* (in any case) whose value is neither a string nor null
Undecodable(body) ==
    \/ body.kind \in {"malformed", "array"}
    \/ \E i \in DOMAIN body.pairs :
          /\ Fold(body.pairs[i][1]) \in {"action", "state"}
          /\ body.pairs[i][2].t \notin {"str", "null"}

\* C2 as stated: the Parameters a state handler receives are the body's
\* top-level object without the keys "action" and "state", every other key
\* with the value the body gives it.
C2_ParamsAreBodyMinusControlKeys ==
    (Served /\ OnSetupPath /\ r.Body.kind = "object" /\ calls # <<>>) =>
        LET P == calls[1].Parameters
        IN  /\ ~P.isNil
            /\ DOMAIN P.kv = MemberKeys(r.Body) \ {"action", "state"}
            /\ \A k \in DOMAIN P.kv : P.kv[k] = LastOf(r.Body, k)

\* a value as the generic decoder delivers it: unchanged, except that an
\* integer of 2^53 or more arrives as a neighbouring even integer (float64)
DeliveredAs(raw, got) ==
    IF raw.t = "num" /\ raw.hi > 0
    THEN /\ got.t = "num" /\ got.hi = raw.hi
         /\ got.lo % 2 = 0
         /\ got.lo - raw.lo \in {-1, 0, 1}
    ELSE got = raw

\* C2 amended: the Parameters are the body's top-level object without the
\* keys "action" and "state" (exactly these spellings); every other key is
\* delivered with its last value as decoded: strings and numbers below 2^53
\* unchanged, larger integers rounded to float64.
C2_ParamsAreDecodedBodyMinusControlKeys ==
    (Served /\ OnSetupPath /\ r.Body.kind = "object" /\ calls # <<>>) =>
        LET P == calls[1].Parameters
        IN  /\ ~P.isNil
            /\ DOMAIN P.kv = MemberKeys(r.Body) \ {"action", "state"}
            /\ \A k \in DOMAIN P.kv : DeliveredAs(LastOf(r.Body, k), P.kv[k])

C2_Witness ==
    /\ Served /\ OnSetupPath /\ calls # <<>>
    /\ "state" \in MemberKeys(r.Body)
    /\ "id" \in DOMAIN calls[1].Parameters.kv
    /\ calls[1].Parameters.kv["id"] = Num(0, 42)

\* a setup or teardown request that decodes and names a state without a
\* registered handler, served by a pipeline that contains the bridge
UnregisteredStateRequest ==
    /\ Served /\ OnSetupPath /\ InPipeline("stateHandler")
    /\ ~Undecodable(r.Body)
    /\ UnmarshalState(r.Body).Action \in {"setup", "teardown"}
    /\ UnmarshalState(r.Body).State \notin request.StateHandlers

\* C3 as stated: a setup/teardown request for an unregistered state gets
\* status 200 and an empty body, and no state handler is invoked, in every
\* pipeline that contains the bridge.
C3_UnregisteredStateIs200 ==
    UnregisteredStateRequest =>
        /\ w.status = StatusOK
        /\ w.body = <<>>
        /\ calls = <<>>

\* C3 amended: such a request gets an empty body and no state handler is
\* invoked; the status is 200 unless a before hook failed on the exchange,
\* whose 500 was sent first and stays.
C3_UnregisteredStateIs200UnlessBeforeFailed ==
    UnregisteredStateRequest =>
        /\ w.status = (IF Has("BeforeEach.err") THEN StatusInternalServerError ELSE StatusOK)
        /\ w.body = <<>>
        /\ calls = <<>>
        /\ BridgeOps = <<[by |-> "stateHandler", op |-> "WriteHeader", code |-> StatusOK]>>

C3_Witness ==
    /\ UnregisteredStateRequest
    /\ request.StateHandlers = {"s1", "setup"}
    /\ Has("BeforeEach") /\ ~Has("BeforeEach.err")
    /\ w.status = StatusOK

\* C4: a setup request whose body does not decode is answered 500 by the
\* bridge, which invokes no state handler, writes no body and does not call
\* the downstream handler.
C4_DecodeFailureIs500 ==
    (Served /\ OnSetupPath /\ InPipeline("stateHandler") /\ Undecodable(r.Body)) =>
        /\ w.status = StatusInternalServerError
        /\ BridgeOps = <<[by |-> "stateHandler", op |-> "WriteHeader",
                          code |-> StatusInternalServerError]>>
        /\ calls = <<>>
        /\ w.body = <<>>
        /\ \A e \in BehindBridge : ~Has(e)

C4_Witness ==
    /\ Served /\ OnSetupPath /\ InPipeline("stateHandler")
    /\ r.Body.kind = "object" /\ Undecodable(r.Body)
    /\ "state" \in MemberKeys(r.Body)
    /\ LastOf(r.Body, "state") = Str("s1")
    /\ "s1" \in request.StateHandlers
    /\ ~Has("BeforeEach")

\* C5: the before hook runs exactly once on a request for the setup path and
\* never on another path, before the downstream handler is called, and the
\* downstream handler is called exactly once whether or not the hook fails.
C5_BeforeHookOnceThenDownstream ==
    (Served /\ InPipeline("beforeEach")) =>
        /\ Count("BeforeEach") = (IF OnSetupPath THEN 1 ELSE 0)
        /\ Count("beforeEach.next") = 1
        /\ Has("BeforeEach") => First("BeforeEach") < First("beforeEach.next")
        /\ Has("BeforeEach.err") => OnSetupPath

C5_Witness ==
    /\ Served /\ InPipeline("beforeEach") /\ OnSetupPath
    /\ Has("BeforeEach.err")
    /\ Has("beforeEach.next") /\ Has("stateHandler")

\* C6: the after-each middleware calls the downstream handler exactly once
\* and first; the after hook runs exactly once if and only if the path is
\* not the setup path, and only when the whole downstream chain, provider
\* call included, has returned.
C6_AfterHookOnceAfterDownstream ==
    (Served /\ InPipeline("afterEach")) =>
        /\ Count("afterEach.next") = 1
        /\ Count("afterEach.return") = 1
        /\ Count("AfterEach") = (IF OnSetupPath THEN 0 ELSE 1)
        /\ Has("AfterEach") =>
              /\ First("afterEach.next") < First("afterEach.return")
              /\ First("afterEach.return") < First("AfterEach")
              /\ \A i \in DOMAIN log :
                    log[i] \in (BehindBridge \cup {"stateHandler", "sf"})
                        => i < First("afterEach.return")

C6_Witness ==
    /\ Served /\ InPipeline("afterEach") /\ ~OnSetupPath
    /\ Has("provider") /\ Has("AfterEach.err")
    /\ First("provider") < First("AfterEach")

\* C7: when the after hook fails on a request off the setup path, the
\* response the engine sees has status 500, whatever the downstream chain
\* wrote.
C7_AfterHookErrorIs500 ==
    (Served /\ ~OnSetupPath /\ Has("AfterEach.err")) => w.status = StatusInternalServerError

\* C8: when the matched state handler returns an error the bridge answers
\* 500 without body and without content-type header, does not call the
\* downstream handler, and has invoked the handler exactly once.
C8_HandlerErrorIs500 ==
    (Served /\ calls # <<>> /\ calls[1].err) =>
        /\ w.status = StatusInternalServerError
        /\ BridgeOps = <<[by |-> "stateHandler", op |-> "WriteHeader",
                          code |-> StatusInternalServerError]>>
        /\ w.body = <<>>
        /\ ContentTypeJSON \notin w.sent /\ ContentTypeJSON \notin w.header
        /\ \A e \in BehindBridge : ~Has(e)
        /\ Len(calls) = 1 /\ Count("sf") = 1

C8_Witness ==
    /\ Served /\ calls # <<>> /\ calls[1].err
    /\ ~calls[1].res.isNil
    /\ ~Has("BeforeEach.err")
    /\ w.status = StatusInternalServerError

\* a handler result json.Marshal can encode, and a JSON text of it: each key
\* once, with its value, in key order
Encodable(res) == \A k \in DOMAIN res.kv : res.kv[k].t # "chan"
KeyRank(k) == CHOOSE i \in DOMAIN KeysSorted : KeysSorted[i] = k
IsJSONOf(text, res) ==
    /\ {text[i][1] : i \in DOMAIN text} = DOMAIN res.kv
    /\ \A i \in DOMAIN text : text[i][2] = res.kv[text[i][1]]
    /\ \A i, j \in DOMAIN text : i < j => KeyRank(text[i][1]) < KeyRank(text[j][1])

HandlerSucceeded == Served /\ OnSetupPath /\ Len(calls) = 1 /\ ~calls[1].err

\* C9 as stated: after a successful handler call, a non-nil result that
\* serializes gives status 200, content-type application/json and the JSON
\* of the result as body; a nil result gives 200 and no body; a result that
\* does not serialize gives 500 and no body.
C9_HandlerResultResponse ==
    HandlerSucceeded =>
        LET res == calls[1].res
        IN  IF res.isNil THEN w.status = StatusOK /\ w.body = <<>>
            ELSE IF Encodable(res)
            THEN /\ w.status = StatusOK
                 /\ ContentTypeJSON \in w.sent
                 /\ Len(w.body) = 1 /\ IsJSONOf(w.body[1].text, res)
            ELSE w.status = StatusInternalServerError /\ w.body = <<>>

\* C9 amended: as stated when no before hook failed on the exchange.  When
\* one did, its 500 was sent first: the status stays 500 and the
\* content-type header is not sent, while the body is written as before.
C9_HandlerResultResponseUnlessBeforeFailed ==
    HandlerSucceeded =>
        LET res == calls[1].res
            ok == IF Has("BeforeEach.err") THEN StatusInternalServerError ELSE StatusOK
        IN  IF res.isNil THEN w.status = ok /\ w.body = <<>>
            ELSE IF Encodable(res)
            THEN /\ w.status = ok
                 /\ (ContentTypeJSON \in w.sent) = ~Has("BeforeEach.err")
                 /\ Len(w.body) = 1 /\ IsJSONOf(w.body[1].text, res)
                 /\ w.body[1].by = "stateHandler"
            ELSE w.status = StatusInternalServerError /\ w.body = <<>>

C9_Witness ==
    /\ HandlerSucceeded
    /\ DOMAIN calls[1].res.kv = {"userId", "id"}
    /\ w.status = StatusOK
    /\ ContentTypeJSON \in w.sent
    /\ Len(w.body) = 1

\* C10: the bridge intercepts exactly the setup path: a request on it never
\* reaches the next handler; a request on any other path reaches the next
\* handler exactly once, no state handler is invoked and the bridge writes
\* nothing to the response.
C10_BridgeInterceptsExactlySetupPath ==
    (Served /\ InPipeline("stateHandler")) =>
        IF OnSetupPath
        THEN Has("stateHandler") /\ \A e \in BehindBridge : ~Has(e)
        ELSE /\ Count("stateHandler.next") = 1
             /\ ~Has("stateHandler") /\ ~Has("sf") /\ calls = <<>>
             /\ BridgeOps = <<>>

C10_Witness ==
    /\ Served /\ InPipeline("stateHandler")
    /\ r.Path = "/__setup/"
    /\ r.Body.kind = "object" /\ Len(r.Body.pairs) = 2
    /\ "s1" \in request.StateHandlers
    /\ Has("stateHandler.next") /\ Has("proxy.internal")

(***************************************************************************)
(* The steps of verifyProviderRaw and VerifyProvider                       *)
(***************************************************************************)
\* the run has left the provider check without panicking
PastProviderCheck == pc \notin {"start", "provider", "panicked"}
ProxyStarted == opts # NoOptions
HostAndPort(url) == <<ParseURL(url).Hostname, ":", ParseURL(url).Port>>

\* C11: a run that gets past the provider check has started the dummy
\* server exactly when the caller gave no ProviderBaseURL, and never more
\* than one; the proxy target is the host and port of the caller's URL when
\* one was given, and localhost with the dummy server's port otherwise.
C11_DummyServerIffNoProviderURL ==
    /\ Len(dummy) <= 1
    /\ dummy # <<>> => given.ProviderBaseURL = <<>>
    /\ PastProviderCheck => (Len(dummy) = 1 <=> given.ProviderBaseURL = <<>>)
    /\ ProxyStarted =>
          IF given.ProviderBaseURL # <<>>
          THEN /\ opts.TargetAddress = HostAndPort(given.ProviderBaseURL)
               /\ opts.TargetScheme = given.ProviderBaseURL[1]
               /\ request.ProviderBaseURL = given.ProviderBaseURL
          ELSE /\ opts.TargetAddress = <<"localhost", ":", dummy[1][3]>>
               /\ opts.TargetScheme = "http"
               /\ HostAndPort(request.ProviderBaseURL) = opts.TargetAddress
C11_Witness ==
    /\ ProxyStarted
    /\ given.ProviderBaseURL = <<>>
    /\ Len(dummy) = 1
    /\ opts.TargetAddress = <<"localhost", ":", "50001">>

\* C12: when no provider URL is configured, the provider base URL names the
\* host and port the dummy server is bound to, whatever the Hostname is.
C12_DummyURLNamesBoundAddress ==
    (PastProviderCheck /\ dummy # <<>>) =>
        HostAndPort(request.ProviderBaseURL) = dummy[1]

Occurrences(seq, x) == Cardinality({i \in DOMAIN seq : seq[i] = x})
MessageDescriptor == [Path |-> "/__messages", Protocol |-> "message", Port |-> port]

\* C13: the request handed to the engine lists the message transport
\* {"/__messages", "message", proxy port} exactly when a message handler is
\* registered, then once and after the caller's transports, which are kept.
C13_MessageTransportIffMessageHandlers ==
    \A i \in DOMAIN engine :
        LET handed == engine[i].Transports
            mine   == given.Transports
        IN  /\ SubSeq(handed, 1, Len(mine)) = mine
            /\ Occurrences(handed, MessageDescriptor) =
                   IF given.MessageHandlers # {} THEN 1 ELSE 0
            /\ IF given.MessageHandlers # {}
               THEN /\ Len(handed) = Len(mine) + 1
                    /\ handed[Len(handed)] = MessageDescriptor
               ELSE handed = mine
C13_Witness ==
    /\ engine # <<>>
    /\ given.MessageHandlers # {}
    /\ given.Transports # <<>>
    /\ Len(engine[1].Transports) = 2
    /\ engine[1].Transports[2].Port = 50002

\* C14: once the proxy is started the ProviderStatesSetupURL is the caller's
\* value when that was not empty, else http://localhost:{proxy port}/__setup
\* when a state handler is registered, else empty.
C14_ProviderStatesSetupURLDefault ==
    ProxyStarted =>
        LET url == request.ProviderStatesSetupURL
        IN  IF given.ProviderStatesSetupURL # <<>>
            THEN url = given.ProviderStatesSetupURL
            ELSE IF given.StateHandlers # {}
                 THEN /\ ParseURL(url).Scheme = "http"
                      /\ HostAndPort(url) = <<"localhost", ":", PortText(port)>>
                      /\ ParseURL(url).Path = "/__setup"
                 ELSE url = <<>>
C14_Witness ==
    /\ ProxyStarted
    /\ given.ProviderStatesSetupURL = <<>>
    /\ given.StateHandlers # {}
    /\ request.ProviderStatesSetupURL = <<"http", "://", "localhost", ":", "50002", "/__setup">>

StepOrder == <<"defaults", "dummy", "validate", "proxy", "wait", "engine">>
WithoutDummy(seq) == SelectSeq(seq, LAMBDA x : x # "dummy")
IsPrefix(a, b) == Len(a) <= Len(b) /\ SubSeq(b, 1, Len(a)) = a

\* C15: the steps of a run come in the order defaults, (dummy server),
\* validate, proxy, wait for port, engine; the engine is run at most once,
\* and only after a validation without error and a successful port wait; a
\* validation error is returned at once, with no proxy and no engine run.
C15_StepsInOrder ==
    /\ IsPrefix(WithoutDummy(steps), WithoutDummy(StepOrder))
    /\ Occurrences(steps, "dummy") <= 1
    /\ Occurrences(steps, "dummy") = 1 => steps[2] = "dummy"
    /\ Len(engine) <= 1
    /\ engine # <<>> =>
          /\ portErr = "nil"
          /\ IsPrefix(<<"validate", "proxy", "wait", "engine">>,
                      SubSeq(WithoutDummy(steps), 2, Len(WithoutDummy(steps))))
          /\ ret # "validate error"
    /\ ret = "validate error" =>
          /\ pc \in {"returned", "done"}
          /\ steps[Len(steps)] = "validate"
          /\ ~ProxyStarted /\ port = 0 /\ m = <<>>
          /\ engine = <<>>
C15_Witness ==
    /\ steps = StepOrder
    /\ Len(engine) = 1
    /\ pc = "done"

\* C16: VerifyProvider returns the very result of verifyProviderRaw, and
\* the test is marked as failed exactly when that result is an error.
C16_VerifyProviderReturnsRawResult ==
    /\ pc = "done" <=> result # "none"
    /\ pc = "done" =>
          /\ ret \in {"nil", "validate error", "verify error"}
          /\ result = ret
          /\ tFailed <=> ret # "nil"
    /\ tFailed => pc = "done"
C16_Witness ==
    /\ pc = "done"
    /\ result = "verify error"
    /\ tFailed

(***************************************************************************)
(* The before hook and the bridge; the call of the state handler           *)
(***************************************************************************)
\* C17: when the before hook fails on a /__setup request and the bridge
\* then runs, the response status is 500 whatever the bridge does: its
\* later 200 does not replace the 500, also when the handler succeeds.
C17_BeforeHookErrorKeeps500 ==
    (Served /\ Has("BeforeEach.err") /\ Has("stateHandler")) =>
        /\ OnSetupPath
        /\ First("BeforeEach.err") < First("stateHandler")
        /\ w.status = StatusInternalServerError
C17_Witness ==
    /\ Served /\ Has("BeforeEach.err")
    /\ Len(calls) = 1 /\ ~calls[1].err
    /\ \E i \in DOMAIN BridgeOps :
          BridgeOps[i].op = "WriteHeader" /\ BridgeOps[i].code = StatusOK
    /\ w.status = StatusInternalServerError

\* the text of a control key as the request body states it: the value the
\* body gives last to exactly this key, "" when the key is absent
Stated(body, k) ==
    IF k \in MemberKeys(body) /\ LastOf(body, k).t = "str" THEN LastOf(body, k).s ELSE ""

\* the text of a control key as the decoder reads it: the last string given
\* to a key of this name in any letter case; a null changes nothing
Spelled(body, k) == {i \in DOMAIN body.pairs :
                        Fold(body.pairs[i][1]) = k /\ body.pairs[i][2].t = "str"}
Read(body, k) ==
    IF Spelled(body, k) = {} THEN ""
    ELSE body.pairs[CHOOSE i \in Spelled(body, k) : \A j \in Spelled(body, k) : j <= i][2].s

\* C18 as stated: a decodable /__setup request for a registered state gets
\* the handler of exactly that state invoked once, with state.Name the
\* request's state and setup true exactly when the request's action is
\* "setup" (false when it is "teardown", absent or anything else).
C18_SetupIffActionIsSetup ==
    (/\ Served /\ OnSetupPath /\ InPipeline("stateHandler")
     /\ ~Undecodable(r.Body)
     /\ Stated(r.Body, "state") \in request.StateHandlers) =>
        /\ Len(calls) = 1
        /\ calls[1].handler = Stated(r.Body, "state")
        /\ calls[1].Name = Stated(r.Body, "state")
        /\ calls[1].setup <=> Stated(r.Body, "action") = "setup"

\* C18 amended: the request's action and state are the last string values
\* of the members named "action" and "state" in any letter case (a null
\* value counts as no member); with these, the handler of exactly that
\* state is invoked once, with that state.Name, and with setup true exactly
\* when the action is "setup".
C18_SetupIffDecodedActionIsSetup ==
    (/\ Served /\ OnSetupPath /\ InPipeline("stateHandler")
     /\ ~Undecodable(r.Body)
     /\ Read(r.Body, "state") \in request.StateHandlers) =>
        /\ Len(calls) = 1
        /\ calls[1].handler = Read(r.Body, "state")
        /\ calls[1].Name = Read(r.Body, "state")
        /\ calls[1].setup <=> Read(r.Body, "action") = "setup"
C18_Witness ==
    /\ Served /\ OnSetupPath
    /\ MemberKeys(r.Body) = {"Action", "state"}
    /\ Len(calls) = 1
    /\ calls[1].Name = "s1"
    /\ calls[1].setup

(***************************************************************************)
(* WaitForPort                                                             *)
(***************************************************************************)
\* what holds of WaitForPort at every moment: dials are made at the polling
\* ticks only, the first one a full interval after the call; nil is
\* returned only after a dial that succeeded; an error is returned only
\* when the timeout has fired, and carries the caller's message
WaitForPortSafe ==
    /\ dial.n * PollInterval <= now
    /\ dial.n > 0 => dial.first = PollInterval /\ dial.last = dial.n * PollInterval
    /\ pc \in {"start", "provider", "validate", "proxy"} => dial.n = 0
    /\ portErr = "nil" => dial.n > 0 /\ dial.ok /\ dial.last = now /\ portErrText = <<>>
    /\ portErr \notin {"none", "nil"} =>
          /\ now = v.ClientTimeout
          /\ dial.n > 0 => ~dial.ok
          /\ Len(portErrText) >= 3
          /\ SubSeq(portErrText, Len(portErrText) - 2, Len(portErrText)) =
                <<"Timed out waiting for http verification proxy on port ", PortText(port),
                  " - check for errors">>
    /\ portErr = "none" => portErrText = <<>> /\ (dial.n > 0 => ~dial.ok)

\* C19: every call of WaitForPort returns; nil only after a successful
\* dial, else an error with the caller's message once the timeout has
\* fired; dials happen at polling ticks only, the first after one interval.
C19_WaitForPortTerminates ==
    /\ []WaitForPortSafe
    /\ (pc = "waitForPort") ~> (pc = "portChecked")
C19_Witness ==
    /\ pc = "portChecked"
    /\ portErr = "nil"
    /\ dial.n = 3 /\ dial.ok
    /\ now = 3 * PollInterval

(***************************************************************************)
(* /__setup requests served at the same time                               *)
(***************************************************************************)
\* the exchange of goroutine g served with nothing else in service
Alone(g) ==
    HandleSetup([w |-> NewResponseWriter, log |-> <<"stateHandler">>, calls |-> <<>>],
                InputOf(conc, g))

\* C20: however the steps of /__setup requests in service together
\* interleave, a state handler is called with the state name and the params
\* of its own request, every response is what the request's body and its
\* handler's result give with no other request in service, and the bridge
\* leaves the registry of handlers as the caller passed it.
C20_ConcurrentSetupRequestsAreIsolated ==
    /\ request.StateHandlers = given.StateHandlers
    /\ \A g \in Goroutines :
          /\ \A i \in DOMAIN conc[g].st.calls :
                LET call == conc[g].st.calls[i]
                IN  /\ i = 1
                    /\ call.Name = Read(conc[g].Body, "state")
                    /\ call.handler = call.Name
                    /\ call.setup <=> Read(conc[g].Body, "action") = "setup"
                    /\ DOMAIN call.Parameters.kv = MemberKeys(conc[g].Body) \ {"action", "state"}
                    /\ \A k \in DOMAIN call.Parameters.kv :
                          DeliveredAs(LastOf(conc[g].Body, k), call.Parameters.kv[k])
          /\ conc[g].at = "sent" =>
                /\ conc[g].st.w = FinishResponse(Alone(g).w)
                /\ conc[g].st.calls = Alone(g).calls
C20_Witness ==
    /\ conc[1].at = "sent" /\ Len(conc[1].st.calls) = 1
    /\ conc[2].at = "called"
    /\ conc[1].Body # conc[2].Body
    /\ conc[1].st.calls[1].Parameters # conc[2].st.calls[1].Parameters
    /\ conc[1].sfRes # conc[2].sfRes

====
